---- MODULE Spec2Model ----
(***************************************************************************)
(* Portfolio importer widget (SiYuan note widget).                         *)
(*                                                                         *)
(* Two variants of the widget script exist in the repository:              *)
(*   "A"  src/unnamed/part_000  reads the news file and the chart file     *)
(*        directly from the SiYuan storage path and parses the file with   *)
(*        parseNewsCSV;                                                    *)
(*   "B"  src/widget.js  asks the bridge for the latest news and for the   *)
(*        chart (generate + copy).                                         *)
(*                                                                         *)
(* Text is modelled as a sequence of tokens.  A token is one of the        *)
(* characters the code inspects ("|", "\n", " ", "\r", "\t") or an opaque   *)
(* non-empty run of other characters ("AAPL", "2024-01-05").  The literal  *)
(* pieces of the templates are tokens of their own.  Characters outside    *)
(* ASCII in the templates are written as ASCII placeholders.               *)
(***************************************************************************)
EXTENDS Naturals, Sequences, FiniteSets, TLC

VARIABLES
    variant,          \* which script is loaded: "A" or "B"
    targetDocId,      \* value of the #targetDocId input
    disabled,         \* disabled flag of workBtn, importNewsBtn, importChartBtn
    logOutput,        \* children of #logOutput, oldest first
    tasks,            \* the running and finished invocations of the handlers
    inflight,         \* fetch() calls that have not been answered yet
    recording,        \* whether the log panel and the traces are kept
    csvText,          \* parser harness: the text given to parseNewsCSV
    ppc,              \* parser harness: "input", "parsed", "rendered"
    allRows,          \* parser harness: the rows collected by the loop of parseNewsCSV
    parsed,           \* parser harness: result of parseNewsCSV(csvText)
    rendered          \* parser harness: markup built from parsed

vars == <<variant, targetDocId, disabled, logOutput, tasks, inflight,
          recording, csvText, ppc, allRows, parsed, rendered>>

orchVars == <<variant, targetDocId, disabled, logOutput, tasks, inflight, recording>>
parseVars == <<csvText, ppc, allRows, parsed, rendered>>

(***************************************************************************)
(* Bounds                                                                  *)
(***************************************************************************)
MaxTasks == 2      \* user gestures (handler invocations) per behaviour
MaxLines == 4      \* lines of the text given to the parser harness

(***************************************************************************)
(* Strings                                                                 *)
(***************************************************************************)
Range(s) == {s[i] : i \in 1..Len(s)}

\* String.prototype.trim: the white space characters that occur in the inputs
IsWs(c) == c \in {" ", "\t", "\r", "\n"}

TrimNone(s) == s

Trim(s) ==
    LET keep == {i \in 1..Len(s) : ~IsWs(s[i])}
    IN  IF keep = {} THEN <<>>
        ELSE LET lo == CHOOSE i \in keep : \A j \in keep : i <= j
                 hi == CHOOSE i \in keep : \A j \in keep : j <= i
             IN  SubSeq(s, lo, hi)

\* String.prototype.split(sep) for a one-character separator: "" splits to [""]
RECURSIVE Split(_, _)
Split(s, sep) ==
    LET hits == {i \in 1..Len(s) : s[i] = sep}
    IN  IF hits = {} THEN <<s>>
        ELSE LET k == CHOOSE i \in hits : \A j \in hits : i <= j
             IN  <<SubSeq(s, 1, k - 1)>> \o Split(SubSeq(s, k + 1, Len(s)), sep)

RECURSIVE Concat(_)
Concat(ss) == IF ss = <<>> THEN <<>> ELSE Head(ss) \o Concat(Tail(ss))

\* a property read: obj[key], undefined when the object has no such property
Get(obj, key) ==
    IF key \in DOMAIN obj THEN [def |-> TRUE, val |-> obj[key]]
    ELSE [def |-> FALSE, val |-> <<>>]

\* `${v}` in a template literal
Str(v) == IF v.def THEN v.val ELSE <<"undefined">>

\* v && v.trim()
NonBlank(v) == v.def /\ Trim(v.val) # <<>>

(***************************************************************************)
(* parseNewsCSV (variant A)                                                *)
(***************************************************************************)
KeyDate == <<"Date">>

\* headers.forEach((header, index) => row[header] = values[index] ? values[index].trim() : '')
\* a header name that occurs twice is assigned twice, the later value stays
RowOf(headers, values) ==
    [h \in Range(headers) |->
        LET at == {i \in 1..Len(headers) : headers[i] = h}
            last == CHOOSE i \in at : \A j \in at : j <= i
        IN  IF values[last] # <<>> THEN Trim(values[last]) ELSE <<>>]

HeadersOf(line) ==
    LET hs == Split(line, "|") IN [i \in 1..Len(hs) |-> Trim(hs[i])]

\* the loop over lines[1..]: a line whose value count differs is skipped
RECURSIVE DataRowsStopAtBad(_, _)
DataRowsStopAtBad(headers, lines) ==
    IF lines = <<>> THEN <<>>
    ELSE LET values == Split(Head(lines), "|")
         IN  IF Len(values) # Len(headers) THEN <<>>
             ELSE <<RowOf(headers, values)>> \o DataRowsStopAtBad(headers, Tail(lines))

RECURSIVE DataRows(_, _)
DataRows(headers, lines) ==
    IF lines = <<>> THEN <<>>
    ELSE LET values == Split(Head(lines), "|")
         IN  (IF Len(values) # Len(headers) THEN <<>>
              ELSE <<RowOf(headers, values)>>) \o DataRows(headers, Tail(lines))

\* data.filter(row => row.Date === latestDate), latestDate = data[0].Date
SelectPrefixRun(data) ==
    IF data = <<>> THEN <<>>
    ELSE LET latestDate == Get(data[1], KeyDate)
             run == {n \in 1..Len(data) :
                        \A i \in 1..n : Get(data[i], KeyDate) = latestDate}
         IN  SubSeq(data, 1, Cardinality(run))

SelectDefinedDate(data) ==
    IF data = <<>> THEN <<>>
    ELSE LET latestDate == Get(data[1], KeyDate)
             Keep(row) == Get(row, KeyDate).def /\ Get(row, KeyDate) = latestDate
         IN  SelectSeq(data, Keep)

SelectLatest(data) ==
    IF data = <<>> THEN <<>>
    ELSE LET latestDate == Get(data[1], KeyDate)
             Keep(row) == Get(row, KeyDate) = latestDate
         IN  SelectSeq(data, Keep)

ParsedRowsNeedsThree(text) ==
    LET lines == Split(Trim(text), "\n")
    IN  IF Len(lines) < 3 THEN <<>>
        ELSE DataRows(HeadersOf(lines[1]), Tail(lines))

\* the array `data` when the loop has ended (empty on the early return)
ParsedRows(text) ==
    LET lines == Split(Trim(text), "\n")
    IN  IF Len(lines) < 2 THEN <<>>
        ELSE DataRows(HeadersOf(lines[1]), Tail(lines))

parseNewsCSV(text) ==
    LET lines == Split(Trim(text), "\n")
    IN  IF Len(lines) < 2 THEN <<>>
        ELSE SelectLatest(ParsedRows(text))

(***************************************************************************)
(* The news markup (importNewsToSiyuan, both variants)                     *)
(***************************************************************************)
MdHeadOpen == "\n---\n# {chart} Portfolio News Update ("
MdHeadClose == ")\n\n"
MdH2 == "## "
MdRefOpen == "(("
MdRefMid == " '"
MdRefClose == "'))"
MdBreak == "\n\n"
MdItemOpen == "- ["
MdItemMid == "]("
MdItemClose == ")"
MdDot == " {middot} "
MdCalendar == " {middot} {calendar} "
MdNoNews == "*(no news)*\n"
MdNl == "\n"
MdNA == "N/A"

NewsGroups == 5
TitleKey(i) == <<<<"news_1_title">>, <<"news_2_title">>, <<"news_3_title">>,
                 <<"news_4_title">>, <<"news_5_title">>>>[i]
DateKey(i) == <<<<"news_1_date">>, <<"news_2_date">>, <<"news_3_date">>,
                <<"news_4_date">>, <<"news_5_date">>>>[i]
LinkKey(i) == <<<<"news_1_link">>, <<"news_2_link">>, <<"news_3_link">>,
                <<"news_4_link">>, <<"news_5_link">>>>[i]
KeyTicker == <<"ticker">>
KeyThesis == <<"thesis">>

\* ---- variant A: src/unnamed/part_000 ----
TickerDisplayPlainA(item) == Str(Get(item, KeyTicker))

TickerDisplayA(item) ==
    LET ticker == Get(item, KeyTicker)
        thesis == Get(item, KeyThesis)
    IN  IF NonBlank(thesis)
        THEN <<MdRefOpen>> \o Str(thesis) \o <<MdRefMid>> \o Str(ticker) \o <<MdRefClose>>
        ELSE Str(ticker)

LinkLineA(item, i) ==
    LET title == Get(item, TitleKey(i))
        newsDate == Get(item, DateKey(i))
        link == Get(item, LinkKey(i))
    IN  IF NonBlank(title) /\ NonBlank(link)
        THEN <<MdItemOpen>> \o Trim(title.val) \o <<MdItemMid>> \o Trim(link.val)
             \o <<MdItemClose>>
             \o (IF NonBlank(newsDate) THEN <<MdDot>> \o Trim(newsDate.val) ELSE <<>>)
             \o <<MdNl>>
        ELSE <<>>

LinkLinesA(item) == Concat([i \in 1..NewsGroups |-> LinkLineA(item, i)])

SectionAlwaysFallbackA(item) ==
    <<MdH2>> \o TickerDisplayA(item) \o <<MdBreak>>
    \o LinkLinesA(item)
    \o <<MdNoNews>>
    \o <<MdNl>>

SectionA(item) ==
    <<MdH2>> \o TickerDisplayA(item) \o <<MdBreak>>
    \o LinkLinesA(item)
    \o (IF LinkLinesA(item) = <<>> THEN <<MdNoNews>> ELSE <<>>)
    \o <<MdNl>>

RenderA(newsData) ==
    <<MdHeadOpen>> \o Str(Get(newsData[1], KeyDate)) \o <<MdHeadClose>>
    \o Concat([k \in 1..Len(newsData) |-> SectionA(newsData[k])])

\* ---- variant B: src/widget.js ----
\* an item of newsData.news: [f |-> its string properties,
\*                            info |-> symbol_info or NoInfo]
NoInfo == [present |-> FALSE, sector |-> <<>>, earnings_date |-> <<>>]

TickerDisplayAlwaysRefB(item) ==
    LET ticker == Get(item.f, KeyTicker)
        thesis == Get(item.f, KeyThesis)
    IN  <<MdRefOpen>> \o Str(thesis) \o <<MdRefMid>> \o Str(ticker) \o <<MdRefClose>>

TickerDisplayB(item) ==
    LET ticker == Get(item.f, KeyTicker)
        thesis == Get(item.f, KeyThesis)
    IN  IF NonBlank(thesis)
        THEN <<MdRefOpen>> \o Str(thesis) \o <<MdRefMid>> \o Str(ticker) \o <<MdRefClose>>
        ELSE Str(ticker)

\* the sector and the earnings date after the heading's label
SymbolInfoAlwaysB(item) ==
    <<MdDot>> \o (IF item.info.sector # <<>> THEN item.info.sector ELSE <<MdNA>>)
    \o (IF item.info.earnings_date # <<>>
        THEN <<MdCalendar>> \o item.info.earnings_date ELSE <<>>)

SymbolInfoB(item) ==
    IF item.info.present
    THEN <<MdDot>> \o (IF item.info.sector # <<>> THEN item.info.sector ELSE <<MdNA>>)
         \o (IF item.info.earnings_date # <<>>
             THEN <<MdCalendar>> \o item.info.earnings_date ELSE <<>>)
    ELSE <<>>

LinkLineTitleOnlyB(item, i) ==
    LET title == Get(item.f, TitleKey(i))
        date == Get(item.f, DateKey(i))
        link == Get(item.f, LinkKey(i))
    IN  IF NonBlank(title)
        THEN <<MdItemOpen>> \o Trim(title.val) \o <<MdItemMid>> \o Trim(link.val)
             \o <<MdItemClose>>
             \o (IF NonBlank(date) THEN <<MdDot>> \o Trim(date.val) ELSE <<>>)
             \o <<MdNl>>
        ELSE <<>>

LinkLineB(item, i) ==
    LET title == Get(item.f, TitleKey(i))
        date == Get(item.f, DateKey(i))
        link == Get(item.f, LinkKey(i))
    IN  IF NonBlank(title) /\ NonBlank(link)
        THEN <<MdItemOpen>> \o Trim(title.val) \o <<MdItemMid>> \o Trim(link.val)
             \o <<MdItemClose>>
             \o (IF NonBlank(date) THEN <<MdDot>> \o Trim(date.val) ELSE <<>>)
             \o <<MdNl>>
        ELSE <<>>

LinkLinesB(item) == Concat([i \in 1..NewsGroups |-> LinkLineB(item, i)])

SectionB(item) ==
    <<MdH2>> \o TickerDisplayB(item) \o SymbolInfoB(item) \o <<MdBreak>>
    \o LinkLinesB(item)
    \o (IF LinkLinesB(item) = <<>> THEN <<MdNoNews>> ELSE <<>>)
    \o <<MdNl>>

\* date: newsData.date, a string or undefined
RenderB(newsItems, date) ==
    <<MdHeadOpen>> \o Str(date) \o <<MdHeadClose>>
    \o Concat([k \in 1..Len(newsItems) |-> SectionB(newsItems[k])])

(***************************************************************************)
(* The widget: buttons, log panel, handlers                                *)
(*                                                                         *)
(* A handler runs without interruption from one await to the next, so one  *)
(* action is one such run: the start of a handler up to its first fetch,   *)
(* or the arrival of a response up to the next fetch or the end of the     *)
(* handler.  fetch() and the reading of the body (json(), text()) are      *)
(* answered together: between the two nothing visible happens.             *)
(*                                                                         *)
(* The log panel is written and never read by the handlers.  When         *)
(* recording is FALSE the panel and the traces of the tasks are not kept,  *)
(* which leaves the buttons, the requests and the control flow as they     *)
(* are; SpecOverlap uses it to let handlers overlap freely.                *)
(*                                                                         *)
(* The operators below work on a machine record                            *)
(*   [d |-> disabled, l |-> logOutput, ts |-> tasks, q |-> inflight]       *)
(* so that importFullPortfolio can call the other handlers.                *)
(*                                                                         *)
(* A task is one invocation of a handler by a user gesture:                *)
(*   kind      the handler: "update", "news", "chart", "full"              *)
(*   fn        the function that is executing or awaiting                  *)
(*   pc        "await" (a fetch is outstanding), "timer", "ret" (the       *)
(*             function fn has just returned), "done"                      *)
(*   step      for "full": index in FullSteps of the step in progress      *)
(*   targetId  const targetId of fn                                        *)
(*   count, linked   newsItems.length and linkedCount, kept for the log    *)
(*   outcome   how the function that returned last ended                   *)
(*   trace     what the task has done so far, in order:                    *)
(*             [e |-> "log",  a |-> type, b |-> msg]                       *)
(*             [e |-> "req",  a |-> url,  b |-> fn]                        *)
(*             [e |-> "resp", a |-> url,  b |-> "ok" or "failed"]          *)
(*             [e |-> "data", a |-> "news", b |-> "empty" or "some"]       *)
(*             [e |-> "end",  a |-> fn,   b |-> "ok", "failed", "invalid"] *)
(***************************************************************************)
Buttons == {"workBtn", "importNewsBtn", "importChartBtn"}

UrlBridge == "run-task"
UrlNewsFile == "portfolio_news_history.csv"
UrlLatestNews == "get-latest-news"
UrlChartFile == "portfolio_sectors_unified.html"
UrlGenerate == "generate-chart"
UrlCopy == "copy-chart-to-siyuan"
UrlAppend == "/api/block/appendBlock"

Machine == [d |-> disabled, l |-> logOutput, ts |-> tasks, q |-> inflight]

NewTask(kind) ==
    [kind |-> kind, fn |-> kind, pc |-> "ret", step |-> 0, targetId |-> <<>>,
     count |-> 0, linked |-> 0, outcome |-> "none", trace |-> <<>>]

Note(m, t, e, a, b) ==
    IF recording THEN [m EXCEPT !.ts[t].trace = Append(@, [e |-> e, a |-> a, b |-> b])]
    ELSE m

\* log(msg, type): logOutput.appendChild(div); n is the number the message
\* shows (0 when it shows none); the time stamp is left out
LogN(m, t, type, msg, n) ==
    IF recording
    THEN Note([m EXCEPT !.l = Append(@, [type |-> type, msg |-> msg, n |-> n])],
              t, "log", type, msg)
    ELSE m

Log(m, t, type, msg) == LogN(m, t, type, msg, 0)

\* logOutput.innerHTML = ''
ClearLog(m) == [m EXCEPT !.l = <<>>]

\* await fetch(url, ...)
Fetch(m, t, url, payload) ==
    LET m1 == [m EXCEPT !.q = @ \cup {[task |-> t, url |-> url, payload |-> payload]},
                        !.ts[t].pc = "await"]
    IN  Note(m1, t, "req", url, m.ts[t].fn)

\* the response to request r has arrived
Answered(m, r, failed) ==
    Note([m EXCEPT !.q = @ \ {r}], r.task, "resp", r.url,
         IF failed THEN "failed" ELSE "ok")

\* the function fn of task t returns
Returns(m, t, outcome) ==
    Note([m EXCEPT !.ts[t].pc = "ret", !.ts[t].outcome = outcome],
         t, "end", m.ts[t].fn, outcome)

\* catch (e) { log(`... ${e.message}`, "error") }
Catch(m, t, message) == Log(m, t, "error", message)

\* const targetId = document.getElementById('targetDocId').value.trim(); if (!targetId)
BlankUntrimmed(id) == id = <<>>

Blank(id) == Trim(id) = <<>>

(***************************************************************************)
(* runPortfolioUpdate                                                      *)
(***************************************************************************)
UpdateResponses ==
    { [reject |-> TRUE,  ok |-> FALSE, status |-> "none",    chart_status |-> "none",    summary |-> FALSE],
      [reject |-> FALSE, ok |-> FALSE, status |-> "none",    chart_status |-> "none",    summary |-> FALSE],
      [reject |-> FALSE, ok |-> TRUE,  status |-> "error",   chart_status |-> "none",    summary |-> FALSE],
      [reject |-> FALSE, ok |-> TRUE,  status |-> "success", chart_status |-> "success", summary |-> TRUE],
      [reject |-> FALSE, ok |-> TRUE,  status |-> "success", chart_status |-> "warning", summary |-> FALSE] }

\* workBtn.disabled = true; logOutput.innerHTML = ''; two log lines; fetch
UpdateBegin(m, t) ==
    LET m1 == ClearLog([m EXCEPT !.d["workBtn"] = TRUE, !.ts[t].fn = "update"])
        m2 == Log(m1, t, "info", "update:start")
        m3 == Log(m2, t, "info", "update:running")
    IN  Fetch(m3, t, UrlBridge, [task |-> "update_portfolio"])

\* the lines logged after a successful response
UpdateReport(m, t, resp) ==
    LET m1 == Log(m, t, "success", "update:history_csv")
        m2 == Log(m1, t, "success", "update:news_csv")
        m3 == IF variant = "A" /\ resp.chart_status = "success"
              THEN Log(m2, t, "success", "update:chart_html")
              ELSE IF variant = "A" /\ resp.chart_status = "warning"
              THEN Log(m2, t, "warning", "update:chart_warning")
              ELSE m2
        m4 == IF resp.summary
              THEN Log(Log(Log(Log(Log(m3, t, "info", "update:summary"),
                                   t, "default", "update:total_value"),
                               t, "default", "update:unrealized_pl"),
                           t, "default", "update:total_dividends"),
                       t, "default", "update:position_count")
              ELSE m3
    IN  Log(m4, t, "info", "update:hint")

\* finally { workBtn.disabled = false }
UpdateFinallySkipped(m) == m

UpdateFinally(m) == [m EXCEPT !.d["workBtn"] = FALSE]

UpdateFailed(resp) == resp.reject \/ ~resp.ok \/ resp.status # "success"

UpdateResume(m, t, r, resp) ==
    LET m0 == Answered(m, r, UpdateFailed(resp))
        body == IF resp.reject THEN Catch(m0, t, "failed:rejected")
                ELSE IF ~resp.ok THEN Catch(m0, t, "failed:http")
                ELSE IF resp.status # "success" THEN Catch(m0, t, "failed:python")
                ELSE UpdateReport(m0, t, resp)
    IN  Returns(UpdateFinally(body), t, IF UpdateFailed(resp) THEN "failed" ELSE "ok")

(***************************************************************************)
(* importNewsToSiyuan                                                      *)
(***************************************************************************)
ExampleText ==
    <<"Date", "|", "ticker", "|", "thesis", "|", "news_1_title", "|",
      "news_1_date", "|", "news_1_link", "\n",
      "2024-01-05", "|", "AAPL", "|", "thesis123", "|", "Apple", " ", "event", "|",
      "2024-01-04", "|", "http://x", "\n",
      "2024-01-04", "|", "MSFT", "|", "|", "|", "|">>

\* variant A: the news file
NewsFileBad == <<"Date", "|", "ticker", "\n", "D1">>
NewsFileTwo ==
    <<"Date", "|", "ticker", "|", "thesis", "\n",
      "D2", "|", "A", "|", "th1", "\n",
      "D2", "|", "B", "|", " ", "\n",
      "D1", "|", "C", "|", "th3">>

NewsFileResponses ==
    { [reject |-> TRUE,  ok |-> FALSE, text |-> <<>>],
      [reject |-> FALSE, ok |-> FALSE, text |-> <<>>] }
    \cup
    { [reject |-> FALSE, ok |-> TRUE, text |-> x] :
         x \in {<<>>, NewsFileBad, NewsFileTwo} }

\* variant B: the answer of get-latest-news
ItemLinked ==
    [f |-> (KeyTicker :> <<"AAPL">>) @@ (KeyThesis :> <<"thesis123">>)
           @@ (TitleKey(1) :> <<"Apple", " ", "event">>)
           @@ (DateKey(1) :> <<"2024-01-04">>)
           @@ (LinkKey(1) :> <<"http://x">>),
     info |-> [present |-> TRUE, sector |-> <<"Tech">>, earnings_date |-> <<"2024-02-01">>]]
ItemPlain ==
    [f |-> (KeyTicker :> <<"MSFT">>) @@ (KeyThesis :> <<" ">>)
           @@ (TitleKey(1) :> <<"Title">>) @@ (LinkKey(1) :> <<>>),
     info |-> NoInfo]

Undefined == [def |-> FALSE, val |-> <<>>]
Defined(v) == [def |-> TRUE, val |-> v]

LatestNewsResponses ==
    { [reject |-> TRUE,  ok |-> FALSE, status |-> "none",  date |-> Undefined, news |-> Undefined],
      [reject |-> FALSE, ok |-> FALSE, status |-> "none",  date |-> Undefined, news |-> Undefined],
      [reject |-> FALSE, ok |-> TRUE,  status |-> "error", date |-> Undefined, news |-> Undefined],
      [reject |-> FALSE, ok |-> TRUE,  status |-> "success", date |-> Defined(<<"2024-01-05">>),
       news |-> Undefined] }
    \cup
    { [reject |-> FALSE, ok |-> TRUE, status |-> "success", date |-> Defined(<<"2024-01-05">>),
       news |-> Defined(x)] :
         x \in {<<>>, <<ItemLinked, ItemPlain>>} }

AppendResponses ==
    { [reject |-> TRUE, ok |-> FALSE, code |-> 1] }
    \cup [reject : {FALSE}, ok : BOOLEAN, code : {0, 1}]

\* importNewsBtn.disabled = true; log(start)
NewsGuardClearsLog(m, t) ==
    Log(ClearLog([m EXCEPT !.d["importNewsBtn"] = TRUE,
                           !.ts[t].targetId = Trim(targetDocId)]),
        t, "info", "news:start")

NewsGuard(m, t) ==
    Log([m EXCEPT !.d["importNewsBtn"] = TRUE, !.ts[t].targetId = Trim(targetDocId)],
        t, "info", "news:start")

NewsBegin(m, t) ==
    LET m0 == [m EXCEPT !.ts[t].fn = "news"]
    IN  IF Blank(targetDocId)
        THEN Returns(Log(m0, t, "error", "validate:target"), t, "invalid")
        ELSE IF variant = "A"
        THEN Fetch(Log(NewsGuard(m0, t), t, "info", "news:reading"), t, UrlNewsFile, <<>>)
        ELSE Fetch(Log(NewsGuard(m0, t), t, "info", "news:fetching"), t, UrlLatestNews, <<>>)

\* finally { importNewsBtn.disabled = false }
NewsFinally(m) == [m EXCEPT !.d["importNewsBtn"] = FALSE]

NewsThrows(m, t, message) == Returns(NewsFinally(Catch(m, t, message)), t, "failed")

\* the log lines of the loop over the items: thesis(k) is item k's thesis
RECURSIVE ItemLogs(_, _, _, _)
ItemLogs(m, t, linkedFlags, k) ==
    IF k > Len(linkedFlags) THEN m
    ELSE LET m1 == Log(m, t, "default", "news:item")
             m2 == IF linkedFlags[k] THEN Log(m1, t, "default", "news:linked") ELSE m1
         IN  ItemLogs(m2, t, linkedFlags, k + 1)

\* log, build fullMd, log, fetch appendBlock
NewsSendCountsLinked(m, t, linkedFlags, fullMd) ==
    LET m1 == Log(m, t, "info", "news:building")
        m2 == ItemLogs(m1, t, linkedFlags, 1)
        m3 == Log(m2, t, "info", "news:syncing")
        linked == Cardinality({k \in 1..Len(linkedFlags) : linkedFlags[k]})
        m4 == [m3 EXCEPT !.ts[t].count = linked, !.ts[t].linked = linked]
    IN  Fetch(m4, t, UrlAppend,
              [data |-> fullMd, dataType |-> "markdown", parentID |-> m.ts[t].targetId])

NewsSend(m, t, linkedFlags, fullMd) ==
    LET m1 == Log(m, t, "info", "news:building")
        m2 == ItemLogs(m1, t, linkedFlags, 1)
        m3 == Log(m2, t, "info", "news:syncing")
        m4 == [m3 EXCEPT !.ts[t].count = Len(linkedFlags),
                         !.ts[t].linked = Cardinality({k \in 1..Len(linkedFlags) : linkedFlags[k]})]
    IN  Fetch(m4, t, UrlAppend,
              [data |-> fullMd, dataType |-> "markdown", parentID |-> m.ts[t].targetId])

\* variant A once the file is read: newsData is what parseNewsCSV returned
NewsDataResume(m, t, r, newsData) ==
    LET m0 == Answered(m, r, FALSE)
        m1 == Note(m0, t, "data", "news", IF newsData = <<>> THEN "empty" ELSE "some")
    IN  IF newsData = <<>> THEN NewsThrows(m1, t, "failed:news_empty")
        ELSE NewsSend(m1, t, [k \in 1..Len(newsData) |-> NonBlank(Get(newsData[k], KeyThesis))],
                      RenderA(newsData))

NewsFileResume(m, t, r, resp) ==
    LET m0 == Answered(m, r, resp.reject \/ ~resp.ok)
    IN  IF resp.reject THEN NewsThrows(m0, t, "failed:rejected")
        ELSE IF ~resp.ok THEN NewsThrows(m0, t, "failed:news_file")
        ELSE NewsDataResume(m, t, r, parseNewsCSV(resp.text))

LatestNewsResume(m, t, r, resp) ==
    LET failed == resp.reject \/ ~resp.ok \/ resp.status # "success"
        m0 == Answered(m, r, failed)
        newsItems == resp.news
        m1 == IF newsItems.def
              THEN Note(m0, t, "data", "news", IF newsItems.val = <<>> THEN "empty" ELSE "some")
              ELSE m0
    IN  IF resp.reject THEN NewsThrows(m0, t, "failed:rejected")
        ELSE IF ~resp.ok THEN NewsThrows(m0, t, "failed:http")
        ELSE IF resp.status # "success" THEN NewsThrows(m0, t, "failed:news_service")
        ELSE IF ~newsItems.def
        THEN \* for (const item of undefined) throws a TypeError
             NewsThrows(Log(m1, t, "info", "news:building"), t, "failed:type_error")
        ELSE NewsSend(m1, t,
                      [k \in 1..Len(newsItems.val) |->
                          NonBlank(Get(newsItems.val[k].f, KeyThesis))],
                      RenderB(newsItems.val, resp.date))

AppendFailed(resp) == resp.reject \/ ~resp.ok \/ resp.code # 0

NewsAppendResume(m, t, r, resp) ==
    LET m0 == Answered(m, r, AppendFailed(resp))
        m1 == LogN(m0, t, "success", "news:success", m.ts[t].count)
        m2 == IF m.ts[t].linked > 0
              THEN LogN(m1, t, "success", "news:linked_count", m.ts[t].linked) ELSE m1
    IN  IF resp.reject THEN NewsThrows(m0, t, "failed:rejected")
        ELSE IF resp.code = 0 THEN Returns(NewsFinally(m2), t, "ok")
        ELSE NewsThrows(m0, t, "failed:siyuan")

(***************************************************************************)
(* importChartToSiyuan                                                     *)
(***************************************************************************)
IframeOpen == "\n<iframe src=\""
IframeClose == "\" width=\"100%\" height=\"950px\" style=\"...\"></iframe>\n"
Iframe(path) == <<IframeOpen>> \o Str(path) \o <<IframeClose>>

ChartPathA == <<"/data/storage/petal/portfolio-importer", "/", UrlChartFile>>

ChartFileResponses ==
    { [reject |-> TRUE, ok |-> FALSE], [reject |-> FALSE, ok |-> FALSE],
      [reject |-> FALSE, ok |-> TRUE] }

\* generate-chart and copy-chart-to-siyuan: path is chart_path / asset_path
BridgePathResponses ==
    { [reject |-> TRUE,  ok |-> FALSE, status |-> "none",    path |-> Undefined],
      [reject |-> FALSE, ok |-> FALSE, status |-> "none",    path |-> Undefined],
      [reject |-> FALSE, ok |-> TRUE,  status |-> "error",   path |-> Undefined],
      [reject |-> FALSE, ok |-> TRUE,  status |-> "success", path |-> Defined(<<"assets/chart.html">>)] }

ChartBegin(m, t) ==
    LET m0 == [m EXCEPT !.ts[t].fn = "chart"]
        m1 == Log([m0 EXCEPT !.d["importChartBtn"] = TRUE,
                             !.ts[t].targetId = Trim(targetDocId)],
                  t, "info", "chart:start")
    IN  IF Blank(targetDocId)
        THEN Returns(Log(m0, t, "error", "validate:target"), t, "invalid")
        ELSE IF variant = "A"
        THEN Fetch(Log(m1, t, "info", "chart:checking"), t, UrlChartFile, <<>>)
        ELSE Fetch(Log(m1, t, "info", "chart:generating"), t, UrlGenerate, <<>>)

ChartFinallySkipped(m) == m

\* finally { importChartBtn.disabled = false }
ChartFinally(m) == [m EXCEPT !.d["importChartBtn"] = FALSE]

ChartThrows(m, t, message) == Returns(ChartFinally(Catch(m, t, message)), t, "failed")

\* log, fetch appendBlock with the iframe
ChartEmbedReadsTargetAgain(m, t, path) ==
    Fetch(Log(m, t, "info", "chart:embedding"), t, UrlAppend,
          [data |-> Iframe(path), dataType |-> "markdown", parentID |-> Trim(targetDocId)])

ChartEmbed(m, t, path) ==
    Fetch(Log(m, t, "info", "chart:embedding"), t, UrlAppend,
          [data |-> Iframe(path), dataType |-> "markdown", parentID |-> m.ts[t].targetId])

\* variant A: the answer to the HEAD request
ChartFileResume(m, t, r, resp) ==
    LET m0 == Answered(m, r, resp.reject \/ ~resp.ok)
    IN  IF resp.reject THEN ChartThrows(m0, t, "failed:rejected")
        ELSE IF ~resp.ok THEN ChartThrows(m0, t, "failed:chart_missing")
        ELSE ChartEmbed(Log(m0, t, "success", "chart:found"), t, Defined(ChartPathA))

BridgePathFailed(resp) == resp.reject \/ ~resp.ok \/ resp.status # "success"

\* variant B: the answer of generate-chart
GenerateResume(m, t, r, resp) ==
    LET m0 == Answered(m, r, BridgePathFailed(resp))
    IN  IF resp.reject THEN ChartThrows(m0, t, "failed:rejected")
        ELSE IF ~resp.ok THEN ChartThrows(m0, t, "failed:http")
        ELSE IF resp.status # "success" THEN ChartThrows(m0, t, "failed:generate")
        ELSE Fetch(Log(Log(m0, t, "success", "chart:generated"), t, "info", "chart:copying"),
                   t, UrlCopy, [chart_path |-> resp.path])

\* variant B: the answer of copy-chart-to-siyuan
CopyResume(m, t, r, resp) ==
    LET m0 == Answered(m, r, BridgePathFailed(resp))
    IN  IF resp.reject THEN ChartThrows(m0, t, "failed:rejected")
        ELSE IF ~resp.ok THEN ChartThrows(m0, t, "failed:http")
        ELSE IF resp.status # "success" THEN ChartThrows(m0, t, "failed:copy")
        ELSE ChartEmbed(Log(m0, t, "success", "chart:copied"), t, resp.path)

ChartAppendResume(m, t, r, resp) ==
    LET m0 == Answered(m, r, AppendFailed(resp))
        m1 == Log(Log(Log(Log(Log(Log(m0, t, "success", "chart:success"),
                                  t, "info", "chart:contains"),
                              t, "default", "chart:sector_pie"),
                          t, "default", "chart:risk_pie"),
                      t, "default", "chart:date_slider"),
                  t, "default", "chart:positions")
    IN  IF resp.reject THEN ChartThrows(m0, t, "failed:rejected")
        ELSE IF resp.code = 0 THEN Returns(ChartFinally(m1), t, "ok")
        ELSE ChartThrows(m0, t, "failed:siyuan")

(***************************************************************************)
(* importFullPortfolio                                                     *)
(***************************************************************************)
\* the three awaited calls of the try block, in order
FullStepsNewsFirst == <<"news", "update", "chart">>

FullSteps == <<"update", "news", "chart">>

\* the call of one of the three functions, up to its first await or its return
StartFn(fn, m, t) ==
    IF fn = "update" THEN UpdateBegin(m, t)
    ELSE IF fn = "news" THEN NewsBegin(m, t)
    ELSE ChartBegin(m, t)

\* finally { the three buttons are enabled again }
FullFinally(m) == [m EXCEPT !.d = [b \in Buttons |-> FALSE]]

\* every awaited call has returned: the success line, then finally.
\* None of the three functions throws or rejects (each has its own catch),
\* so the catch block of importFullPortfolio never runs.
FullEnd(m, t) ==
    LET m1 == Log([m EXCEPT !.ts[t].fn = "full"], t, "success", "full:success")
    IN  Returns(FullFinally(m1), t, "ok")

\* variant A awaits a timer of one second after the first step
TimerAfter(i) == variant = "A" /\ i = 1

\* the try block from step i on, up to the next await
RECURSIVE RunFrom(_, _, _)
RunFrom(m, t, i) ==
    IF i > Len(FullSteps) THEN FullEnd(m, t)
    ELSE LET m1 == LogN([m EXCEPT !.ts[t].step = i], t, "info", "full:step", i)
             m2 == StartFn(FullSteps[i], m1, t)
         IN  IF m2.ts[t].pc # "ret" THEN m2
             ELSE IF TimerAfter(i) THEN [m2 EXCEPT !.ts[t].pc = "timer"]
             ELSE RunFrom(m2, t, i + 1)

FullBegin(m, t) ==
    LET m0 == [m EXCEPT !.ts[t].fn = "full"]
        m1 == ClearLog([m0 EXCEPT !.d = [b \in Buttons |-> TRUE],
                                  !.ts[t].targetId = Trim(targetDocId)])
    IN  IF Blank(targetDocId)
        THEN Returns(Log(m0, t, "error", "validate:target"), t, "invalid")
        ELSE RunFrom(Log(m1, t, "info", "full:start"), t, 1)

\* a function has returned: a handler invoked by a gesture is finished, a
\* function awaited by importFullPortfolio lets the try block go on
Settle(m, t) ==
    IF m.ts[t].pc # "ret" THEN m
    ELSE IF m.ts[t].kind = "full" /\ m.ts[t].fn # "full"
    THEN LET i == m.ts[t].step
             m1 == IF TimerAfter(i) THEN [m EXCEPT !.ts[t].pc = "timer"]
                   ELSE RunFrom(m, t, i + 1)
         IN  IF m1.ts[t].pc = "ret" THEN [m1 EXCEPT !.ts[t].pc = "done"] ELSE m1
    ELSE [m EXCEPT !.ts[t].pc = "done"]

(***************************************************************************)
(* Actions                                                                 *)
(***************************************************************************)
TargetIds == {<<>>, <<" ">>, <<" ", "doc1", " ">>}

Loaded ==
    /\ variant \in {"A", "B"}
    /\ targetDocId \in TargetIds
    /\ disabled = [b \in Buttons |-> FALSE]
    /\ logOutput = <<>>
    /\ tasks = <<>>
    /\ inflight = {}
    /\ csvText = <<>>
    /\ ppc = "idle"
    /\ allRows = <<>>
    /\ parsed = <<>>
    /\ rendered = <<>>

Init == Loaded /\ recording = TRUE

InitOverlap == Loaded /\ recording = FALSE

Commit(m) ==
    /\ disabled' = m.d
    /\ logOutput' = m.l
    /\ tasks' = m.ts
    /\ inflight' = m.q
    /\ UNCHANGED <<variant, targetDocId, recording>>
    /\ UNCHANGED parseVars

\* a finished invocation has no further effect: its record is dropped when
\* the next gesture arrives
Gone == [NewTask("none") EXCEPT !.fn = "none", !.pc = "done"]

Forget(ts) == [i \in 1..Len(ts) |-> IF ts[i].pc = "done" THEN Gone ELSE ts[i]]

Invoke(kind) ==
    LET t == Len(tasks) + 1
        m == [Machine EXCEPT !.ts = Append(Forget(tasks), NewTask(kind))]
    IN  Settle(IF kind = "full" THEN FullBegin(m, t) ELSE StartFn(kind, m, t), t)

\* no handler is running
Idle == \A t \in 1..Len(tasks) : tasks[t].pc = "done"

\* the user types into #targetDocId
EditTarget ==
    /\ \E v \in TargetIds \ {targetDocId} : targetDocId' = v
    /\ UNCHANGED <<variant, disabled, logOutput, tasks, inflight, recording>>
    /\ UNCHANGED parseVars

\* workBtn.addEventListener('click', runPortfolioUpdate)
ClickWork ==
    /\ Len(tasks) < MaxTasks
    /\ ~disabled["workBtn"]
    /\ Commit(Invoke("update"))

\* importNewsBtn.addEventListener('click', importNewsToSiyuan)
ClickNews ==
    /\ Len(tasks) < MaxTasks
    /\ ~disabled["importNewsBtn"]
    /\ Commit(Invoke("news"))

\* importChartBtn.addEventListener('click', importChartToSiyuan)
ClickChart ==
    /\ Len(tasks) < MaxTasks
    /\ ~disabled["importChartBtn"]
    /\ Commit(Invoke("chart"))

\* fullImportBtn.addEventListener('click', importFullPortfolio); no code
\* ever disables fullImportBtn
ClickFull ==
    /\ Len(tasks) < MaxTasks
    /\ Commit(Invoke("full"))

OnBridge ==
    \E r \in inflight : \E resp \in UpdateResponses :
        /\ r.url = UrlBridge
        /\ Commit(Settle(UpdateResume(Machine, r.task, r, resp), r.task))

OnNewsFile ==
    \E r \in inflight : \E resp \in NewsFileResponses :
        /\ r.url = UrlNewsFile
        /\ Commit(Settle(NewsFileResume(Machine, r.task, r, resp), r.task))

OnLatestNews ==
    \E r \in inflight : \E resp \in LatestNewsResponses :
        /\ r.url = UrlLatestNews
        /\ Commit(Settle(LatestNewsResume(Machine, r.task, r, resp), r.task))

OnChartFile ==
    \E r \in inflight : \E resp \in ChartFileResponses :
        /\ r.url = UrlChartFile
        /\ Commit(Settle(ChartFileResume(Machine, r.task, r, resp), r.task))

OnGenerate ==
    \E r \in inflight : \E resp \in BridgePathResponses :
        /\ r.url = UrlGenerate
        /\ Commit(Settle(GenerateResume(Machine, r.task, r, resp), r.task))

OnCopy ==
    \E r \in inflight : \E resp \in BridgePathResponses :
        /\ r.url = UrlCopy
        /\ Commit(Settle(CopyResume(Machine, r.task, r, resp), r.task))

OnAppend ==
    \E r \in inflight : \E resp \in AppendResponses :
        /\ r.url = UrlAppend
        /\ Commit(Settle(IF tasks[r.task].fn = "news"
                         THEN NewsAppendResume(Machine, r.task, r, resp)
                         ELSE ChartAppendResume(Machine, r.task, r, resp), r.task))

\* setTimeout(resolve, 1000) of variant A
TimerFires ==
    \E t \in 1..Len(tasks) :
        /\ tasks[t].pc = "timer"
        /\ Commit(Settle(RunFrom(Machine, t, tasks[t].step + 1), t))

Respond ==
    \/ OnBridge
    \/ OnNewsFile
    \/ OnLatestNews
    \/ OnChartFile
    \/ OnGenerate
    \/ OnCopy
    \/ OnAppend
    \/ TimerFires

\* the user waits for an action to end before the next gesture
Next ==
    \/ EditTarget
    \/ Idle /\ ClickWork
    \/ Idle /\ ClickNews
    \/ Idle /\ ClickChart
    \/ Idle /\ ClickFull
    \/ Respond

Spec == Init /\ [][Next]_vars

\* gestures at any time: a click needs only an enabled button
NextOverlap ==
    \/ EditTarget
    \/ ClickWork
    \/ ClickNews
    \/ ClickChart
    \/ ClickFull
    \/ Respond

SpecOverlap == InitOverlap /\ [][NextOverlap]_vars

\* at most one handler is running
AlmostIdle == Cardinality({t \in 1..Len(tasks) : tasks[t].pc # "done"}) <= 1

\* gestures while at most one handler is running: handlers overlap in pairs
NextLive ==
    \/ EditTarget
    \/ AlmostIdle /\ ClickWork
    \/ AlmostIdle /\ ClickNews
    \/ AlmostIdle /\ ClickChart
    \/ AlmostIdle /\ ClickFull
    \/ Respond

\* every request that was issued is answered in the end, and the timer of
\* variant A fires
SpecLive == InitOverlap /\ [][NextLive]_vars /\ WF_vars(Respond)

(***************************************************************************)
(* Parser harness: parseNewsCSV and the variant A markup on bounded texts  *)
(***************************************************************************)
ParseLines ==
    { <<"Date", "|", "ticker">>,
      <<" ", "Date", " ", "|", "ticker", "\r">>,
      <<"ticker", "|", "ticker">>,
      <<"D1", "|", "A">>,
      <<"D2", "|", "B">>,
      <<" ", "D2", "|", " ">>,
      <<"D1">>,
      <<"D1", "|", "A", "|", "x">>,
      <<>> }

RECURSIVE JoinLines(_)
JoinLines(ls) ==
    IF ls = <<>> THEN <<>>
    ELSE IF Len(ls) = 1 THEN ls[1]
    ELSE ls[1] \o <<"\n">> \o JoinLines(Tail(ls))

ParseInputs ==
    {ExampleText} \cup
    {JoinLines(ls) : ls \in UNION {[1..n -> ParseLines] : n \in 0..MaxLines}}

OrchIdle ==
    /\ variant = "A"
    /\ targetDocId = <<>>
    /\ disabled = [b \in {"workBtn", "importNewsBtn", "importChartBtn"} |-> FALSE]
    /\ logOutput = <<>>
    /\ tasks = <<>>
    /\ inflight = {}
    /\ recording = FALSE

InitParse ==
    /\ OrchIdle
    /\ csvText \in ParseInputs
    /\ ppc = "input"
    /\ allRows = <<>>
    /\ parsed = <<>>
    /\ rendered = <<>>

\* const newsData = parseNewsCSV(csvText)
ParseStep ==
    /\ ppc = "input"
    /\ allRows' = ParsedRows(csvText)
    /\ parsed' = parseNewsCSV(csvText)
    /\ ppc' = "parsed"
    /\ UNCHANGED <<csvText, rendered>>
    /\ UNCHANGED orchVars

\* the markup of a non-empty newsData
RenderStep ==
    /\ ppc = "parsed"
    /\ parsed # <<>>
    /\ rendered' = RenderA(parsed)
    /\ ppc' = "rendered"
    /\ UNCHANGED <<csvText, allRows, parsed>>
    /\ UNCHANGED orchVars

NextParse == ParseStep \/ RenderStep

SpecParse == InitParse /\ [][NextParse]_vars

(***************************************************************************)
(* Renderer harness: the markup of both variants on bounded news sets      *)
(***************************************************************************)
MaxItems == 2      \* records of a news set given to the renderer harness

\* the display date of the harness's news sets
RenderDate == <<"2024-01-05">>

\* the ways one news group of a record can be filled
GroupShapes == {"none", "full", "nodate", "title", "link"}

GroupTitle == <<"T1", "T2", "T3", "T4", "T5">>
GroupDate == <<"D1", "D2", "D3", "D4", "D5">>
GroupLink == <<"L1", "L2", "L3", "L4", "L5">>

\* item[`news_${i}_title`], item[`news_${i}_date`], item[`news_${i}_link`]
\* of a group of the given shape, as the service may deliver them
ShapeField(shape, i, key) ==
    IF shape = "full"
    THEN (IF key = TitleKey(i) THEN Defined(<<" ", GroupTitle[i]>>)
          ELSE IF key = DateKey(i) THEN Defined(<<GroupDate[i], " ">>)
          ELSE Defined(<<GroupLink[i]>>))
    ELSE IF shape = "nodate"
    THEN (IF key = TitleKey(i) THEN Defined(<<GroupTitle[i]>>)
          ELSE IF key = DateKey(i) THEN Defined(<<" ">>)
          ELSE Defined(<<" ", GroupLink[i]>>))
    ELSE IF shape = "title"
    THEN (IF key = TitleKey(i) THEN Defined(<<GroupTitle[i]>>)
          ELSE IF key = DateKey(i) THEN Defined(<<GroupDate[i]>>)
          ELSE Defined(<<>>))
    ELSE IF shape = "link"
    THEN (IF key = TitleKey(i) THEN Defined(<<" ">>)
          ELSE IF key = DateKey(i) THEN Undefined
          ELSE Defined(<<GroupLink[i]>>))
    ELSE Undefined

\* the string properties of an item: ticker, thesis and the five news groups
ItemFields(thesis, shapes) ==
    LET groupKeys == {TitleKey(i) : i \in 1..NewsGroups}
                     \cup {DateKey(i) : i \in 1..NewsGroups}
                     \cup {LinkKey(i) : i \in 1..NewsGroups}
        GroupOf(k) == CHOOSE i \in 1..NewsGroups : k \in {TitleKey(i), DateKey(i), LinkKey(i)}
        Val(k) == IF k = KeyTicker THEN Defined(<<"AAPL">>)
                  ELSE IF k = KeyThesis THEN thesis
                  ELSE ShapeField(shapes[GroupOf(k)], GroupOf(k), k)
        dom == {k \in {KeyTicker, KeyThesis} \cup groupKeys : Val(k).def}
    IN  [k \in dom |-> Val(k).val]

\* a record as parseNewsCSV delivers it: every value trimmed, a Date field
AsParsed(f) == [k \in DOMAIN f \cup {KeyDate} |->
                   IF k = KeyDate THEN RenderDate ELSE Trim(f[k])]

Theses == {Undefined, Defined(<<>>), Defined(<<" ">>), Defined(<<"th1">>)}

SymbolInfos ==
    { NoInfo,
      [present |-> TRUE, sector |-> <<"Tech">>, earnings_date |-> <<"2024-02-01">>],
      [present |-> TRUE, sector |-> <<>>, earnings_date |-> <<>>] }

MixedShapes == <<"full", "link", "nodate", "title", "none">>
NoShapes == <<"none", "none", "none", "none", "none">>

\* the items of the loop `for (const item of ...)` in the given variant
RenderItem(v, thesis, shapes, info) ==
    IF v = "A" THEN AsParsed(ItemFields(thesis, shapes))
    ELSE [f |-> ItemFields(thesis, shapes), info |-> info]

FewItems(v) ==
    { RenderItem(v, th, sh, info) :
        th \in Theses, sh \in {MixedShapes, NoShapes},
        info \in IF v = "A" THEN {NoInfo} ELSE SymbolInfos }

RenderInputs(v) ==
    { <<RenderItem(v, Defined(<<"th1">>), sh, NoInfo)>> : sh \in [1..NewsGroups -> GroupShapes] }
    \cup UNION { [1..n -> FewItems(v)] : n \in 1..MaxItems }

InitRender ==
    /\ variant \in {"A", "B"}
    /\ targetDocId = <<" ", "doc1", " ">>
    /\ disabled = [b \in Buttons |-> FALSE]
    /\ logOutput = <<>>
    /\ tasks = <<>>
    /\ inflight = {}
    /\ recording = TRUE
    /\ csvText = <<>>
    /\ allRows = <<>>
    /\ ppc = "items"
    /\ parsed \in RenderInputs(variant)
    /\ rendered = <<>>

\* the markup importNewsToSiyuan builds from its news set
RenderNews ==
    /\ ppc = "items"
    /\ rendered' = IF variant = "A" THEN RenderA(parsed)
                   ELSE RenderB(parsed, Defined(RenderDate))
    /\ ppc' = "rendered"
    /\ UNCHANGED <<csvText, allRows, parsed>>
    /\ UNCHANGED orchVars

\* the answer to the news request of importNewsToSiyuan carries the news set
\* of the harness: as the parsed file in variant A, as newsData.news with
\* newsData.date in variant B
OnNewsRecords ==
    \E r \in inflight :
        /\ ppc = "rendered"
        /\ r.url \in {UrlNewsFile, UrlLatestNews}
        /\ LET resp == [reject |-> FALSE, ok |-> TRUE, status |-> "success",
                        date |-> Defined(RenderDate), news |-> Defined(parsed)]
               m == Settle(IF variant = "A"
                           THEN NewsDataResume(Machine, r.task, r, parsed)
                           ELSE LatestNewsResume(Machine, r.task, r, resp), r.task)
           IN  /\ disabled' = m.d
               /\ logOutput' = m.l
               /\ tasks' = m.ts
               /\ inflight' = m.q
        /\ ppc' = "sent"
        /\ UNCHANGED <<variant, targetDocId, recording, csvText, allRows, parsed, rendered>>

\* the markup is kept for comparison, then one import of the news set runs
NextRender ==
    \/ RenderNews
    \/ ppc = "rendered" /\ tasks = <<>> /\ ClickNews
    \/ OnNewsRecords
    \/ OnAppend

SpecRender == InitRender /\ [][NextRender]_vars

(***************************************************************************)
(* Properties of the parser, the selector and the variant A markup         *)
(***************************************************************************)

\* C5 as stated: for a non-empty record set the selector returns exactly the
\* maximal initial run of records that carry the first record's Date.
C5_PrefixRunOnly ==
    (ppc # "input" /\ allRows # <<>>) =>
        LET d == Get(allRows[1], KeyDate)
            run == {n \in 1..Len(allRows) :
                       \A i \in 1..n : Get(allRows[i], KeyDate) = d}
        IN  parsed = SubSeq(allRows, 1, Cardinality(run))

\* C5 amended: for a non-empty record set the selector returns, in input
\* order, exactly the records whose Date equals the first record's Date,
\* wherever they stand; the initial run of that Date is a prefix of the
\* result and records of any other Date are left out.
C5_SameDateSubsequence ==
    (ppc # "input" /\ allRows # <<>>) =>
        LET d == Get(allRows[1], KeyDate)
            same == {i \in 1..Len(allRows) : Get(allRows[i], KeyDate) = d}
            Nth(k) == CHOOSE i \in same : Cardinality({j \in same : j < i}) = k - 1
            run == {n \in 1..Len(allRows) : \A i \in 1..n : i \in same}
        IN  /\ Len(parsed) = Cardinality(same)
            /\ \A k \in 1..Len(parsed) : parsed[k] = allRows[Nth(k)]
            /\ SubSeq(parsed, 1, Cardinality(run)) = SubSeq(allRows, 1, Cardinality(run))

\* C5 witness: dates [D, other, D]: a record of the first Date stands after a
\* record of another Date, and the selector has returned it.
C5_Witness ==
    /\ ppc = "parsed"
    /\ Len(allRows) = 3
    /\ Get(allRows[2], KeyDate) # Get(allRows[1], KeyDate)
    /\ Get(allRows[3], KeyDate) = Get(allRows[1], KeyDate)
    /\ Len(parsed) = 2

\* C6 as stated: every data line with as many values as the header has fields
\* gives one record with exactly the N trimmed header names as its fields
\* and the trimmed values of the line as their values; other lines give no
\* record and do not stop the parse; all records have the same field names.
C6_RecordPerMatchingLine ==
    ppc # "input" =>
        LET lines == Split(Trim(csvText), "\n")
        IN  Len(lines) >= 2 =>
            LET hdr == Split(lines[1], "|")
                N == Len(hdr)
                good == {i \in 2..Len(lines) : Len(Split(lines[i], "|")) = N}
                Nth(k) == CHOOSE i \in good : Cardinality({j \in good : j < i}) = k - 1
            IN  /\ Len(allRows) = Cardinality(good)
                /\ \A k \in 1..Len(allRows) :
                     LET vals == Split(lines[Nth(k)], "|")
                     IN  /\ DOMAIN allRows[k] = {Trim(hdr[j]) : j \in 1..N}
                         /\ Cardinality(DOMAIN allRows[k]) = N
                         /\ \A j \in 1..N : allRows[k][Trim(hdr[j])] = Trim(vals[j])
                /\ \A k, l \in 1..Len(allRows) : DOMAIN allRows[k] = DOMAIN allRows[l]

\* C6 amended: every data line with as many values as the header has fields
\* gives one record whose field names are the distinct trimmed header names
\* and whose values are the trimmed values of the line, a name that occurs
\* more than once in the header keeping the value under its last occurrence;
\* other lines give no record and do not stop the parse; all records have
\* the same field names.
C6_RecordPerMatchingLineLastWins ==
    ppc # "input" =>
        LET lines == Split(Trim(csvText), "\n")
        IN  Len(lines) >= 2 =>
            LET hdr == Split(lines[1], "|")
                N == Len(hdr)
                good == {i \in 2..Len(lines) : Len(Split(lines[i], "|")) = N}
                Nth(k) == CHOOSE i \in good : Cardinality({j \in good : j < i}) = k - 1
                IsLast(j) == \A j2 \in 1..N : Trim(hdr[j2]) = Trim(hdr[j]) => j2 <= j
            IN  /\ Len(allRows) = Cardinality(good)
                /\ \A k \in 1..Len(allRows) :
                     LET vals == Split(lines[Nth(k)], "|")
                     IN  /\ DOMAIN allRows[k] = {Trim(hdr[j]) : j \in 1..N}
                         /\ \A j \in 1..N :
                              IsLast(j) => allRows[k][Trim(hdr[j])] = Trim(vals[j])
                /\ \A k, l \in 1..Len(allRows) : DOMAIN allRows[k] = DOMAIN allRows[l]

\* C6 witness: a line with the wrong value count stands between two lines
\* with the right count, both of which became records; a value was padded.
C6_Witness ==
    /\ ppc = "parsed"
    /\ Len(allRows) = 2
    /\ LET lines == Split(Trim(csvText), "\n")
       IN  /\ Len(lines) = 4
           /\ Len(Split(lines[3], "|")) # Len(Split(lines[1], "|"))
           /\ Len(Split(lines[4], "|")) = Len(Split(lines[1], "|"))
           /\ Split(lines[4], "|")[1] # Trim(Split(lines[4], "|")[1])

\* C10: on the example input (header Date|ticker|thesis|news_1_title|
\* news_1_date|news_1_link, one 2024-01-05 AAPL row, one 2024-01-04 MSFT row)
\* parse+select keeps only the 2024-01-05 row, and the markup has one section,
\* headed by the cross-reference to thesis123 showing AAPL, with exactly one
\* link line to http://x annotated 2024-01-04, no fallback line and no MSFT.
C10_EndToEndExample ==
    (csvText = ExampleText /\ ppc # "input") =>
        /\ Len(allRows) = 2
        /\ Len(parsed) = 1
        /\ parsed[1][KeyDate] = <<"2024-01-05">>
        /\ parsed[1][KeyTicker] = <<"AAPL">>
        /\ ppc = "rendered" =>
             /\ rendered =
                  <<MdHeadOpen, "2024-01-05", MdHeadClose,
                    MdH2, MdRefOpen, "thesis123", MdRefMid, "AAPL", MdRefClose, MdBreak,
                    MdItemOpen, "Apple", " ", "event", MdItemMid, "http://x", MdItemClose,
                    MdDot, "2024-01-04", MdNl,
                    MdNl>>
             /\ Cardinality({i \in 1..Len(rendered) : rendered[i] = MdH2}) = 1
             /\ Cardinality({i \in 1..Len(rendered) : rendered[i] = MdItemOpen}) = 1
             /\ MdNoNews \notin Range(rendered)
             /\ "MSFT" \notin Range(rendered)

\* C10 witness: the example input has been parsed and rendered.
C10_Witness == csvText = ExampleText /\ ppc = "rendered" /\ rendered # <<>>

\* C14: a text in which at most one line holds anything besides white space
\* (the empty text, white space only, a header line without a data line,
\* with or without blank lines around it) is parsed to the empty record set:
\* the call of parseNewsCSV on it has a value, the empty array, before and
\* after the parse step; no exception is raised.
C14_FewerThanTwoLinesEmpty ==
    LET raw == Split(csvText, "\n")
        solid == {i \in 1..Len(raw) : \E j \in 1..Len(raw[i]) : ~IsWs(raw[i][j])}
    IN  Cardinality(solid) <= 1 =>
            /\ parseNewsCSV(csvText) = <<>>
            /\ ppc # "input" => (parsed = <<>> /\ allRows = <<>>)

\* C14 witness: a header line that has a blank line before it and a blank
\* line after it has been parsed, and the result is empty.
C14_Witness ==
    /\ ppc = "parsed"
    /\ parsed = <<>>
    /\ LET raw == Split(csvText, "\n")
       IN  /\ Len(raw) = 3
           /\ raw[1] = <<>>
           /\ "|" \in Range(raw[2])
           /\ raw[3] = <<>>

\* C15 as stated: whenever the text has a header line and at least one
\* further line that is not blank, the result of the parse is not empty.
C15_NonEmptyWithDataLine ==
    ppc # "input" =>
        LET raw == Split(csvText, "\n")
            solid == {i \in 1..Len(raw) : \E j \in 1..Len(raw[i]) : ~IsWs(raw[i][j])}
        IN  Cardinality(solid) >= 2 => parsed # <<>>

\* C15 amended: the result of the parse is empty exactly when no line after
\* the header line of the trimmed text has as many values as the header has
\* fields (which is so, in particular, when the trimmed text has fewer than
\* two lines); one line with the header's field count makes it non-empty.
C15_EmptyIffNoMatchingLine ==
    ppc # "input" =>
        LET lines == Split(Trim(csvText), "\n")
            good == {i \in 2..Len(lines) :
                        Len(Split(lines[i], "|")) = Len(Split(lines[1], "|"))}
        IN  (parsed = <<>>) <=> (good = {})

\* C15 witness: a header and two further lines that are not blank have been
\* parsed; neither line has the header's field count and the result is empty.
C15_Witness ==
    /\ ppc = "parsed"
    /\ parsed = <<>>
    /\ LET lines == Split(Trim(csvText), "\n")
       IN  /\ Len(lines) = 3
           /\ \A i \in 1..3 : \E j \in 1..Len(lines[i]) : ~IsWs(lines[i][j])
           /\ \A i \in 2..3 : Len(Split(lines[i], "|")) # Len(Split(lines[1], "|"))

\* C20: when the parse has collected at least one record, its result holds,
\* in input order, every record whose Date is the Date of the record at
\* position 0 and no other record; the record at position 0 is its first
\* element; so the result is non-empty exactly when a record was collected,
\* which is exactly when some data line has the header's field count.
C20_LatestSnapshot ==
    ppc # "input" =>
        LET lines == Split(Trim(csvText), "\n")
            good == {i \in 2..Len(lines) :
                        Len(Split(lines[i], "|")) = Len(Split(lines[1], "|"))}
            idx == {i \in 1..Len(allRows) :
                       Get(allRows[i], KeyDate) = Get(allRows[1], KeyDate)}
        IN  /\ (allRows # <<>>) <=> (good # {})
            /\ (parsed # <<>>) <=> (allRows # <<>>)
            /\ allRows # <<>> =>
                 /\ parsed[1] = allRows[1]
                 /\ Len(parsed) = Cardinality(idx)
                 /\ \A i \in idx : parsed[Cardinality({j \in idx : j <= i})] = allRows[i]

\* C20 witness: a text whose header has no Date column has been parsed: two
\* records were collected, the Date of each is undefined, and both are in the
\* result.
C20_Witness ==
    /\ ppc = "parsed"
    /\ Len(allRows) = 2
    /\ KeyDate \notin DOMAIN allRows[1]
    /\ allRows[1] # allRows[2]
    /\ parsed = allRows

(***************************************************************************)
(* Properties of the markup of both variants                               *)
(***************************************************************************)

\* C11: for each record the markup has one link line for exactly those of the
\* groups 1..5 whose title and link both hold something besides white space,
\* in index order; the line is the trimmed title as link text, the trimmed
\* link as target and, iff the group's date holds something besides white
\* space, the trimmed date after a middle dot; a group with a blank title or
\* a blank link gives no line, so the number of link lines is the number of
\* groups with both.
C11_LinkLinePerFilledGroup ==
    ppc = "rendered" =>
        LET F(k) == IF variant = "A" THEN parsed[k] ELSE parsed[k].f
            Has(f, key) == key \in DOMAIN f /\ \E j \in 1..Len(f[key]) : ~IsWs(f[key][j])
            heads == {p \in 1..Len(rendered) : rendered[p] = MdH2}
            HeadAt(k) == CHOOSE p \in heads : Cardinality({q \in heads : q < p}) = k - 1
            Sec(k) == SubSeq(rendered, HeadAt(k),
                             IF k = Len(parsed) THEN Len(rendered) ELSE HeadAt(k + 1) - 1)
            Filled(k) == {i \in 1..NewsGroups :
                             Has(F(k), TitleKey(i)) /\ Has(F(k), LinkKey(i))}
            GroupAt(k, n) == CHOOSE i \in Filled(k) :
                                 Cardinality({j \in Filled(k) : j < i}) = n - 1
            starts(k) == {p \in 1..Len(Sec(k)) : Sec(k)[p] = MdItemOpen}
            StartAt(k, n) == CHOOSE p \in starts(k) :
                                 Cardinality({q \in starts(k) : q < p}) = n - 1
            EndAt(k, n) == CHOOSE q \in StartAt(k, n)..Len(Sec(k)) :
                               /\ Sec(k)[q] = MdNl
                               /\ \A r \in StartAt(k, n)..(q - 1) : Sec(k)[r] # MdNl
            Expected(f, i) ==
                <<MdItemOpen>> \o Trim(f[TitleKey(i)]) \o <<MdItemMid>>
                \o Trim(f[LinkKey(i)]) \o <<MdItemClose>>
                \o (IF Has(f, DateKey(i)) THEN <<MdDot>> \o Trim(f[DateKey(i)]) ELSE <<>>)
                \o <<MdNl>>
        IN  /\ Cardinality(heads) = Len(parsed)
            /\ \A k \in 1..Len(parsed) :
                 /\ Cardinality(starts(k)) = Cardinality(Filled(k))
                 /\ \A n \in 1..Cardinality(Filled(k)) :
                        SubSeq(Sec(k), StartAt(k, n), EndAt(k, n))
                            = Expected(F(k), GroupAt(k, n))

\* C11 witness: the service variant has rendered a record whose groups 1 and 3
\* have title and link (3 with a blank date), whose group 2 has a link and a
\* blank title and whose group 4 has a title and an empty link: the markup
\* has two link lines and one date annotation.
C11_Witness ==
    /\ ppc = "rendered"
    /\ variant = "B"
    /\ Len(parsed) = 1
    /\ parsed[1].info = NoInfo
    /\ Get(parsed[1].f, TitleKey(2)) = Defined(<<" ">>)
    /\ Get(parsed[1].f, LinkKey(4)) = Defined(<<>>)
    /\ Cardinality({p \in 1..Len(rendered) : rendered[p] = MdItemOpen}) = 2
    /\ Cardinality({p \in 1..Len(rendered) : rendered[p] = MdDot}) = 1

\* C12: the section of a record has the fallback line exactly when it has no
\* link line, and then it has it once: never both, never neither; a record
\* whose five groups hold nothing but white space has the fallback line and
\* no link line.
C12_FallbackIffNoLinkLine ==
    ppc = "rendered" =>
        LET F(k) == IF variant = "A" THEN parsed[k] ELSE parsed[k].f
            Has(f, key) == key \in DOMAIN f /\ \E j \in 1..Len(f[key]) : ~IsWs(f[key][j])
            heads == {p \in 1..Len(rendered) : rendered[p] = MdH2}
            HeadAt(k) == CHOOSE p \in heads : Cardinality({q \in heads : q < p}) = k - 1
            Sec(k) == SubSeq(rendered, HeadAt(k),
                             IF k = Len(parsed) THEN Len(rendered) ELSE HeadAt(k + 1) - 1)
            links(k) == Cardinality({p \in 1..Len(Sec(k)) : Sec(k)[p] = MdItemOpen})
            fallbacks(k) == Cardinality({p \in 1..Len(Sec(k)) : Sec(k)[p] = MdNoNews})
            AllBlank(k) == \A i \in 1..NewsGroups :
                               /\ ~Has(F(k), TitleKey(i))
                               /\ ~Has(F(k), DateKey(i))
                               /\ ~Has(F(k), LinkKey(i))
        IN  /\ Cardinality(heads) = Len(parsed)
            /\ \A k \in 1..Len(parsed) :
                 /\ fallbacks(k) <= 1
                 /\ (fallbacks(k) = 1) <=> (links(k) = 0)
                 /\ AllBlank(k) => (fallbacks(k) = 1 /\ links(k) = 0)
                 /\ fallbacks(k) = 1 =>
                        SubSeq(Sec(k), Len(Sec(k)) - 2, Len(Sec(k))) = <<MdBreak, MdNoNews, MdNl>>

\* C12 witness: the file variant has rendered two records, the first without
\* any news group and the second with two link lines: the markup has one
\* fallback line, and it stands before the first link line.
C12_Witness ==
    /\ ppc = "rendered"
    /\ variant = "A"
    /\ Len(parsed) = 2
    /\ Cardinality({p \in 1..Len(rendered) : rendered[p] = MdNoNews}) = 1
    /\ Cardinality({p \in 1..Len(rendered) : rendered[p] = MdItemOpen}) = 2
    /\ \A p, q \in 1..Len(rendered) :
           (rendered[p] = MdNoNews /\ rendered[q] = MdItemOpen) => p < q

\* C13 as stated: in both variants the heading of a record with a non-blank
\* thesis holds the thesis identifier and the ticker, and the heading of a
\* record with a blank (absent, empty or white space) thesis holds the ticker
\* and nothing else.
C13_BlankThesisTickerOnly ==
    ppc = "rendered" =>
        LET F(k) == IF variant = "A" THEN parsed[k] ELSE parsed[k].f
            Has(f, key) == key \in DOMAIN f /\ \E j \in 1..Len(f[key]) : ~IsWs(f[key][j])
            heads == {p \in 1..Len(rendered) : rendered[p] = MdH2}
            HeadAt(k) == CHOOSE p \in heads : Cardinality({q \in heads : q < p}) = k - 1
            BreakAt(k) == CHOOSE q \in HeadAt(k)..Len(rendered) :
                              /\ rendered[q] = MdBreak
                              /\ \A r \in HeadAt(k)..(q - 1) : rendered[r] # MdBreak
            Heading(k) == SubSeq(rendered, HeadAt(k) + 1, BreakAt(k) - 1)
        IN  /\ Cardinality(heads) = Len(parsed)
            /\ \A k \in 1..Len(parsed) :
                 IF Has(F(k), KeyThesis)
                 THEN /\ \A x \in Range(F(k)[KeyThesis]) : x \in Range(Heading(k))
                      /\ \A x \in Range(F(k)[KeyTicker]) : x \in Range(Heading(k))
                 ELSE Heading(k) = F(k)[KeyTicker]

\* C13 amended: the heading of a record is its label followed by its
\* supplementary metadata.  The label is the cross-reference ((thesis
\* 'ticker')) when the thesis is non-blank and the plain ticker otherwise.
\* The metadata is empty in the file variant and for an item without
\* symbol_info; for an item of the service variant with symbol_info it is a
\* middle dot and the sector (N/A when the sector is empty), followed, when
\* there is an earnings date, by a middle dot, the calendar sign and that
\* date.
C13_HeadingIsLabelThenMetadata ==
    ppc = "rendered" =>
        LET F(k) == IF variant = "A" THEN parsed[k] ELSE parsed[k].f
            Has(f, key) == key \in DOMAIN f /\ \E j \in 1..Len(f[key]) : ~IsWs(f[key][j])
            heads == {p \in 1..Len(rendered) : rendered[p] = MdH2}
            HeadAt(k) == CHOOSE p \in heads : Cardinality({q \in heads : q < p}) = k - 1
            BreakAt(k) == CHOOSE q \in HeadAt(k)..Len(rendered) :
                              /\ rendered[q] = MdBreak
                              /\ \A r \in HeadAt(k)..(q - 1) : rendered[r] # MdBreak
            Heading(k) == SubSeq(rendered, HeadAt(k) + 1, BreakAt(k) - 1)
            Label(k) == IF Has(F(k), KeyThesis)
                        THEN <<MdRefOpen>> \o F(k)[KeyThesis] \o <<MdRefMid>>
                             \o F(k)[KeyTicker] \o <<MdRefClose>>
                        ELSE F(k)[KeyTicker]
            Meta(k) == IF variant = "A" \/ ~parsed[k].info.present THEN <<>>
                       ELSE <<MdDot>>
                            \o (IF parsed[k].info.sector = <<>> THEN <<MdNA>>
                                ELSE parsed[k].info.sector)
                            \o (IF parsed[k].info.earnings_date = <<>> THEN <<>>
                                ELSE <<MdCalendar>> \o parsed[k].info.earnings_date)
        IN  /\ Cardinality(heads) = Len(parsed)
            /\ \A k \in 1..Len(parsed) : Heading(k) = Label(k) \o Meta(k)

\* C13 witness: the service variant has rendered two records, one with a
\* thesis of white space and symbol_info, one with a thesis and symbol_info
\* whose sector is empty: the first heading is the ticker followed by sector
\* and earnings date, the second is the cross-reference followed by N/A.
C13_Witness ==
    /\ ppc = "rendered"
    /\ variant = "B"
    /\ Len(parsed) = 2
    /\ Get(parsed[1].f, KeyThesis) = Defined(<<" ">>)
    /\ Get(parsed[2].f, KeyThesis) = Defined(<<"th1">>)
    /\ parsed[1].f = ItemFields(Defined(<<" ">>), NoShapes)
    /\ parsed[2].f = ItemFields(Defined(<<"th1">>), NoShapes)
    /\ rendered = <<MdHeadOpen, "2024-01-05", MdHeadClose,
                    MdH2, "AAPL", MdDot, "Tech", MdCalendar, "2024-02-01", MdBreak,
                    MdNoNews, MdNl,
                    MdH2, MdRefOpen, "th1", MdRefMid, "AAPL", MdRefClose, MdDot, MdNA, MdBreak,
                    MdNoNews, MdNl>>

(***************************************************************************)
(* Properties of the handlers                                              *)
(***************************************************************************)

\* C1: in a run of importFullPortfolio, once the update step has failed no
\* request of the news or chart step is issued and no line of the news step
\* (its step header included) is logged in that run.
C1_FailedUpdateHalts ==
    \A t \in 1..Len(tasks) :
        tasks[t].kind = "full" =>
            LET tr == tasks[t].trace
            IN  \A i, j \in 1..Len(tr) :
                    (i < j /\ tr[i] = [e |-> "end", a |-> "update", b |-> "failed"]) =>
                        /\ ~(tr[j].e = "req" /\ tr[j].b \in {"news", "chart"})
                        /\ ~(tr[j].e = "log" /\ tr[j].b \in {"full:step", "news:start"})

\* C2: a click on import-news, import-chart or run-all while the target input
\* is empty or holds only white space issues no request, appends exactly one
\* error-level validation line to the log and leaves every button's disabled
\* flag as it was.
C2_BlankTargetGesture ==
    [][ ( /\ Len(tasks') = Len(tasks) + 1
          /\ tasks'[Len(tasks')].kind \in {"news", "chart", "full"}
          /\ \A i \in 1..Len(targetDocId) : IsWs(targetDocId[i]) )
        => ( /\ inflight' = inflight
             /\ disabled' = disabled
             /\ logOutput' = Append(logOutput,
                                    [type |-> "error", msg |-> "validate:target", n |-> 0])
             /\ \A k \in 1..Len(tasks'[Len(tasks')].trace) :
                    tasks'[Len(tasks')].trace[k].e # "req"
             /\ tasks'[Len(tasks')].pc = "done" ) ]_vars

\* C2 witness: import-news was clicked with a blank target after another
\* action had logged: the handler is over, it logged the validation error and
\* nothing else, nothing is in flight, the earlier lines are still there.
C2_Witness ==
    /\ \A i \in 1..Len(targetDocId) : IsWs(targetDocId[i])
    /\ inflight = {}
    /\ Len(logOutput) > 1
    /\ logOutput[Len(logOutput)] = [type |-> "error", msg |-> "validate:target", n |-> 0]
    /\ \E t \in 1..Len(tasks) :
         /\ tasks[t].kind = "news"
         /\ tasks[t].pc = "done"
         /\ tasks[t].trace = << [e |-> "log", a |-> "error", b |-> "validate:target"],
                                [e |-> "end", a |-> "news", b |-> "invalid"] >>

\* C3: in every action a failed response (transport status not 2xx, body
\* status other than success, append code other than 0) aborts the action:
\* the action issues no request afterwards, logs no success line afterwards,
\* and when it is over it has logged exactly one error line since.
C3_FailureAborts ==
    \A t \in 1..Len(tasks) :
        LET tr == tasks[t].trace
        IN  \A i \in 1..Len(tr) :
                (tr[i].e = "resp" /\ tr[i].b = "failed") =>
                    /\ \A j \in (i + 1)..Len(tr) :
                           /\ tr[j].e # "req"
                           /\ ~(tr[j].e = "log" /\ tr[j].a = "success")
                    /\ tasks[t].pc = "done" =>
                           Cardinality({j \in (i + 1)..Len(tr) :
                                           tr[j].e = "log" /\ tr[j].a = "error"}) = 1

\* C4: whenever no handler is running, workBtn, importNewsBtn and
\* importChartBtn are all enabled.
C4_ButtonsEnabledWhenIdle ==
    Idle => \A b \in Buttons : ~disabled[b]

\* C4 witness: two actions are over, one ended in failure and one in
\* success, and the three buttons are enabled.
C4_Witness ==
    /\ Idle
    /\ \E t1, t2 \in 1..Len(tasks) :
         /\ tasks[t1].outcome = "failed"
         /\ tasks[t2].outcome = "ok"
    /\ \A b \in Buttons : ~disabled[b]

\* C7: when the news set obtained by importNewsToSiyuan is empty (no record
\* left by parseNewsCSV, or an empty news list from the service), the news
\* import issues no append request and ends with an error line.
C7_EmptyNewsIsError ==
    \A t \in 1..Len(tasks) :
        LET tr == tasks[t].trace
        IN  \A i \in 1..Len(tr) :
                tr[i] = [e |-> "data", a |-> "news", b |-> "empty"] =>
                    /\ \A j \in (i + 1)..Len(tr) :
                           ~(tr[j].e = "req" /\ tr[j].a = UrlAppend /\ tr[j].b = "news")
                    /\ (\E j \in (i + 1)..Len(tr) : tr[j].e = "end" /\ tr[j].a = "news") =>
                           \E j \in (i + 1)..Len(tr) : tr[j].e = "log" /\ tr[j].a = "error"

\* C8 as stated: the log panel is append-only: every step leaves the lines
\* that were there in place and only adds lines after them.
C8_LogOnlyGrows ==
    [][ /\ Len(logOutput') >= Len(logOutput)
        /\ SubSeq(logOutput', 1, Len(logOutput)) = logOutput ]_vars

\* C8 amended: lines are removed only by the reset of the panel that
\* runPortfolioUpdate and importFullPortfolio perform when they begin (also
\* when runPortfolioUpdate begins as the first step of run-all, which erases
\* the lines run-all has logged so far); every other step leaves the lines
\* in place and only adds lines after them, and after a step with a reset the
\* panel holds nothing but lines logged in that step.
C8_LogGrowsExceptAtReset ==
    [][ LET Fresh(t) ==
                IF t <= Len(tasks) /\ Len(tasks'[t].trace) >= Len(tasks[t].trace)
                THEN SubSeq(tasks'[t].trace, Len(tasks[t].trace) + 1, Len(tasks'[t].trace))
                ELSE tasks'[t].trace
            Resets(t) ==
                \E k \in 1..Len(Fresh(t)) :
                    /\ Fresh(t)[k].e = "log"
                    /\ Fresh(t)[k].b \in {"update:start", "full:start"}
            Logged(t) == {k \in 1..Len(Fresh(t)) : Fresh(t)[k].e = "log"}
        IN  \/ /\ Len(logOutput') >= Len(logOutput)
               /\ SubSeq(logOutput', 1, Len(logOutput)) = logOutput
            \/ \E t \in 1..Len(tasks') :
                   /\ Resets(t)
                   /\ Len(logOutput') <= Cardinality(Logged(t)) ]_vars

\* C8 witness: run-all has logged its opening line, and the panel, which is
\* not empty, no longer shows it: the update step has reset the panel.
C8_Witness ==
    /\ Len(logOutput) > 0
    /\ \E t \in 1..Len(tasks) :
         /\ tasks[t].kind = "full"
         /\ [e |-> "log", a |-> "info", b |-> "full:start"] \in Range(tasks[t].trace)
         /\ \A i \in 1..Len(logOutput) : logOutput[i].msg # "full:start"

\* C9: in a run of importFullPortfolio no request of the news step is issued
\* before the update step has ended, no request of the chart step before the
\* news step has ended, and the run never has two requests outstanding: each
\* request is answered before the next is issued.
C9_StepsSequential ==
    \A t \in 1..Len(tasks) :
        tasks[t].kind = "full" =>
            LET tr == tasks[t].trace
                Ended(fn, j) == \E i \in 1..(j - 1) : tr[i].e = "end" /\ tr[i].a = fn
            IN  /\ Cardinality({r \in inflight : r.task = t}) <= 1
                /\ \A j \in 1..Len(tr) :
                       tr[j].e = "req" =>
                           /\ tr[j].b = "news" => Ended("update", j)
                           /\ tr[j].b = "chart" => Ended("news", j)
                           /\ \A i \in 1..(j - 1) :
                                  tr[i].e = "req" =>
                                      \E k \in (i + 1)..(j - 1) : tr[k].e = "resp"

\* C9 witness: a run of importFullPortfolio is over in which all three steps
\* issued requests.
C9_Witness ==
    \E t \in 1..Len(tasks) :
        /\ tasks[t].kind = "full"
        /\ tasks[t].pc = "done"
        /\ \A fn \in {"update", "news", "chart"} :
               \E j \in 1..Len(tasks[t].trace) :
                   tasks[t].trace[j].e = "req" /\ tasks[t].trace[j].b = fn

\* C16: when every request is answered in the end, every handler that was
\* started by a gesture comes to its end, and in the step in which a handler
\* that disabled buttons ends, the buttons it disabled are enabled: workBtn
\* for the update, importNewsBtn for the news import, importChartBtn for the
\* chart import, all three for run-all.
C16_StartedActionsFinish ==
    /\ \A t \in 1..MaxTasks :
           [](Len(tasks) >= t => <>(Len(tasks) >= t /\ tasks[t].pc = "done"))
    /\ [][ \A t \in 1..Len(tasks') :
               ( /\ t > Len(tasks) \/ tasks[t].pc # "done"
                 /\ tasks'[t].pc = "done"
                 /\ tasks'[t].outcome # "invalid" )
               => LET own == IF tasks'[t].kind = "update" THEN {"workBtn"}
                             ELSE IF tasks'[t].kind = "news" THEN {"importNewsBtn"}
                             ELSE IF tasks'[t].kind = "chart" THEN {"importChartBtn"}
                             ELSE Buttons
                  IN  \A b \in own : ~disabled'[b] ]_vars

\* C16 witness: a run-all that disabled the three buttons has come to its
\* end, nothing is in flight, the three buttons are enabled.
C16_Witness ==
    /\ inflight = {}
    /\ \A b \in Buttons : ~disabled[b]
    /\ \E t \in 1..Len(tasks) :
         /\ tasks[t].kind = "full"
         /\ tasks[t].pc = "done"
         /\ tasks[t].outcome = "ok"
         /\ tasks[t].targetId # <<>>

\* C17: whatever the user clicks, clicks on a disabled button having no
\* effect, at most one update_portfolio request is in flight at any time.
C17_OneUpdateInFlight ==
    Cardinality({r \in inflight : r.url = UrlBridge}) <= 1

\* C18: from the step in which importFullPortfolio disables the three buttons
\* until its own finally block runs, the three buttons stay disabled: while a
\* run-all that passed the validation is waiting for a response or for the
\* timer, workBtn, importNewsBtn and importChartBtn are all disabled.
C18_ButtonsHeldDuringRunAll ==
    \A t \in 1..Len(tasks) :
        (tasks[t].kind = "full" /\ tasks[t].pc \in {"await", "timer"}) =>
            \A b \in Buttons : disabled[b]

\* C19: a run of importFullPortfolio logs its final success line only if all
\* three steps succeeded in that run: no response of the run was a failure
\* (the update answered success, both appends answered code 0) and no step
\* ended as failed or invalid; a run in which a step failed logs no final
\* success line.
C19_SuccessOnlyIfAllSucceeded ==
    \A t \in 1..Len(tasks) :
        LET tr == tasks[t].trace
        IN  (tasks[t].kind = "full"
             /\ [e |-> "log", a |-> "success", b |-> "full:success"] \in Range(tr)) =>
                \A i \in 1..Len(tr) :
                    /\ ~(tr[i].e = "resp" /\ tr[i].b = "failed")
                    /\ ~(tr[i].e = "end" /\ tr[i].b \in {"failed", "invalid"})

(***************************************************************************)
(* Properties of the news document and of the request that carries it      *)
(***************************************************************************)

\* C21: the news document starts with the document heading, which holds the
\* display date and occurs once; after it comes one section per record of the
\* news set, in the order of the records (section k is the section the record
\* k gives when it is rendered alone), so the number of subsection headings
\* is the number of records; the append request carries this document, and
\* the success line of the log shows the same number.
C21_OneHeadingOneSectionPerRecord ==
    LET n == Len(parsed)
        Solo(k) == IF variant = "A" THEN RenderA(<<parsed[k]>>)
                   ELSE RenderB(<<parsed[k]>>, Defined(RenderDate))
        SoloSection(k) == SubSeq(Solo(k), 4, Len(Solo(k)))
        Count(seq, tok) == Cardinality({i \in 1..Len(seq) : seq[i] = tok})
        lines == {i \in 1..Len(logOutput) : logOutput[i].msg = "news:success"}
    IN  /\ ppc = "rendered" /\ tasks = <<>> =>
               /\ SubSeq(rendered, 1, 3) = <<MdHeadOpen>> \o RenderDate \o <<MdHeadClose>>
               /\ Count(rendered, MdHeadOpen) = 1
               /\ \A k \in 1..n :
                      SoloSection(k)[1] = MdH2 /\ Count(SoloSection(k), MdH2) = 1
               /\ rendered = SubSeq(rendered, 1, 3)
                                 \o Concat([k \in 1..n |-> SoloSection(k)])
        /\ ppc \in {"rendered", "sent"} =>
               /\ Count(rendered, MdH2) = n
               /\ \A r \in inflight : r.url = UrlAppend => r.payload.data = rendered
               /\ \A i \in lines : logOutput[i].n = Count(rendered, MdH2)
               /\ \A t \in 1..Len(tasks) :
                      tasks[t].outcome = "ok" => Cardinality(lines) = 1

\* C21 witness: a news set of two different records has been imported with
\* success: the document was sent and the success line shows the number 2.
C21_Witness ==
    /\ ppc = "sent"
    /\ Len(parsed) = 2
    /\ parsed[1] # parsed[2]
    /\ inflight = {}
    /\ tasks[1].outcome = "ok"
    /\ \E i \in 1..Len(logOutput) :
           logOutput[i].msg = "news:success" /\ logOutput[i].n = 2


\* C22: an action started by the news button or by the chart button issues
\* at most one append request; when it ends with success it has issued
\* exactly one, and no other request after it; the identifier the action
\* keeps is the trimmed content of the target field at the click and never
\* changes afterwards, whatever is typed into the field meanwhile; an append
\* request in flight carries that identifier, which is not empty, as
\* parentID and "markdown" as dataType.
C22_OneAppendLastWithStartTarget ==
    [][ \A t \in 1..Len(tasks') :
          LET T == tasks'[t]
              reqs == {i \in 1..Len(T.trace) : T.trace[i].e = "req"}
              apps == {i \in reqs : T.trace[i].a = UrlAppend}
              old == t <= Len(tasks) /\ tasks[t].kind = T.kind
          IN  T.kind \in {"news", "chart"} =>
                /\ Cardinality(apps) <= 1
                /\ T.outcome = "ok" =>
                      /\ Cardinality(apps) = 1
                      /\ \A i \in reqs : \A j \in apps : i <= j
                /\ ~old => T.outcome = "invalid" \/ T.targetId = Trim(targetDocId)
                /\ old => T.targetId = tasks[t].targetId
                /\ \A r \in inflight' :
                      r.task = t /\ r.url = UrlAppend =>
                        /\ r.payload.parentID = T.targetId
                        /\ T.targetId # <<>>
                        /\ r.payload.dataType = "markdown"
      ]_vars

\* C22 witness: a chart import of the service variant has ended with success
\* after three requests, the last of them its one append request, and the
\* target field was emptied after the click.
C22_Witness ==
    /\ variant = "B"
    /\ Len(tasks) = 1
    /\ tasks[1].kind = "chart"
    /\ tasks[1].outcome = "ok"
    /\ tasks[1].targetId = <<"doc1">>
    /\ targetDocId = <<>>
    /\ LET tr == tasks[1].trace
           reqs == {i \in 1..Len(tr) : tr[i].e = "req"}
       IN  /\ Cardinality(reqs) = 3
           /\ \E j \in reqs : tr[j].a = UrlAppend /\ \A i \in reqs : i <= j

\* C23: for a display date and a list of records without symbol_info, the
\* markup the one variant has built is the markup the other variant builds
\* from the same date and the same records, and the append request carries
\* that markup, "markdown" as dataType and the trimmed target as parentID in
\* either variant.
C23_VariantsBuildSameMarkup ==
    LET n == Len(parsed)
        common == variant = "A" \/ \A k \in 1..n : parsed[k].info = NoInfo
        newsData == IF variant = "A" THEN parsed
                    ELSE [k \in 1..n |-> (KeyDate :> RenderDate) @@ parsed[k].f]
        newsItems == IF variant = "B" THEN parsed
                     ELSE [k \in 1..n |-> [f |-> parsed[k], info |-> NoInfo]]
        other == IF variant = "A"
                 THEN RenderB(newsItems, Get(newsData[1], KeyDate))
                 ELSE RenderA(newsData)
    IN  common =>
          /\ ppc = "rendered" /\ tasks = <<>> => rendered = other
          /\ ppc = "sent" =>
                \A r \in inflight :
                    r.url = UrlAppend =>
                        r.payload = [data |-> rendered, dataType |-> "markdown",
                                     parentID |-> Trim(targetDocId)]

\* C23 witness: the service variant has built the markup of two different
\* records without symbol_info, one of them with link lines, and its append
\* request is in flight.
C23_Witness ==
    /\ ppc = "sent"
    /\ variant = "B"
    /\ Len(parsed) = 2
    /\ parsed[1] # parsed[2]
    /\ \A k \in 1..2 : parsed[k].info = NoInfo
    /\ \E i \in 1..Len(rendered) : rendered[i] = MdItemOpen
    /\ \E r \in inflight : r.url = UrlAppend /\ r.payload.data = rendered

=============================================================================
